---- MODULE Spec2Model ----
(***************************************************************************)
(* Coursework Agent: the job orchestrator (runAgent / runJob), the job     *)
(* resolver (loadEssay, normalizeDocUrl, loadConfig) and the typing engine *)
(* (typeWithHumanSpeed), modelled as a state machine.                      *)
(*                                                                         *)
(* JavaScript strings are tuples of one-character strings, JavaScript      *)
(* objects are functions from their own keys to values (a key that is not  *)
(* in the DOMAIN is an absent property).  typoChance and the Math.random() *)
(* roll are counted in hundredths (0.02 is 2, 1.0 is 100).                 *)
(***************************************************************************)
EXTENDS Integers, Sequences, FiniteSets, TLC

VARIABLES
    config,             \* the parsed config file (SpecConfig), or NoConfig
    jobs,               \* runAgent's first argument: the raw job descriptors
    sequential,         \* options.sequential
    closeTabOnComplete, \* options.closeTabOnComplete
    agentPc,            \* where runAgent stands
    agentState,         \* the promise runAgent returned: pending/resolved/rejected
    cursor,             \* index of the loop runAgent is in (resolve, for-of, map)
    resolvedJobs,       \* runAgent's resolvedJobs
    warnings,           \* raw indices of the jobs skipped with a warning
    sessionOpens,       \* calls of chromium.launchPersistentContext
    sessionClosed,      \* whether runAgent has closed the context
    opened,             \* raw indices of the jobs, in context.newPage() call order
    jpc,                \* per job: where its runJob call stands
    idx,                \* per job: the loop variable i of typeWithHumanSpeed
    keys,               \* per job: the keyboard operations issued on its page
    onStartCount,       \* per job: calls of onJobStart
    onCompleteLog,      \* per job: the error arguments of its onJobComplete calls
    progressLog,        \* per job: the numerators i+1 of its onJobProgress calls
    thrown,             \* per job: the error its runJob call threw, or NoError
    navigatedTo,        \* per job: the argument of page.goto, or NoUrl
    engineOpts,         \* per job: the options handed to typeWithHumanSpeed
    focused,            \* per job: whether a focus click succeeded
    pageClosed,         \* per job: whether page.close() was called
    stopped,            \* per job: state.stopped
    paused,             \* per job: state.paused
    pageOf,             \* per job: the page context.newPage() gave it, 0 for none
    extraLog,           \* per job: the extra sleeps taken after punctuation
    breakLog,           \* per job: the breaks taken
    stopSince           \* per job: when shouldStop() last turned true, or NoStop

vars == << config, jobs, sequential, closeTabOnComplete, agentPc, agentState,
           cursor, resolvedJobs, warnings, sessionOpens, sessionClosed, opened,
           jpc, idx, keys, onStartCount, onCompleteLog, progressLog, thrown,
           navigatedTo, engineOpts, focused, pageClosed, stopped, paused, pageOf, extraLog, breakLog, stopSince >>

-----------------------------------------------------------------------------
(* Bounds of the model *)

\* the longest list of job descriptors handed to runAgent
MaxJobs == 2

-----------------------------------------------------------------------------
(* Strings *)

Alpha == <<"a", "b", "c", "d", "e", "f", "g", "h", "i", "j", "k", "l", "m",
           "n", "o", "p", "q", "r", "s", "t", "u", "v", "w", "x", "y", "z">>

AlphaUp == <<"A", "B", "C", "D", "E", "F", "G", "H", "I", "J", "K", "L", "M",
             "N", "O", "P", "Q", "R", "S", "T", "U", "V", "W", "X", "Y", "Z">>

Digits == {"0", "1", "2", "3", "4", "5", "6", "7", "8", "9"}

Range(s) == { s[i] : i \in DOMAIN s }

\* String.prototype.toLowerCase / toUpperCase on one character
ToLower(c) ==
    IF \E i \in DOMAIN AlphaUp : AlphaUp[i] = c
    THEN Alpha[CHOOSE i \in DOMAIN AlphaUp : AlphaUp[i] = c]
    ELSE c

ToUpper(c) ==
    IF \E i \in DOMAIN Alpha : Alpha[i] = c
    THEN AlphaUp[CHOOSE i \in DOMAIN Alpha : Alpha[i] = c]
    ELSE c

LowerStr(s) == [i \in DOMAIN s |-> ToLower(s[i])]

\* the characters String.prototype.trim removes
WhiteSpace == {" ", "\t", "\n", "\r"}

RECURSIVE TrimLeft(_)
TrimLeft(s) ==
    IF s # <<>> /\ Head(s) \in WhiteSpace THEN TrimLeft(Tail(s)) ELSE s

RECURSIVE TrimRight(_)
TrimRight(s) ==
    IF s # <<>> /\ s[Len(s)] \in WhiteSpace
    THEN TrimRight(SubSeq(s, 1, Len(s) - 1))
    ELSE s

Trim(s) == TrimRight(TrimLeft(s))

StartsWith(s, p) == Len(p) <= Len(s) /\ SubSeq(s, 1, Len(p)) = p

EndsWith(s, p) ==
    Len(p) <= Len(s) /\ SubSeq(s, Len(s) - Len(p) + 1, Len(s)) = p

Includes(s, p) ==
    \E k \in 0 .. (Len(s) - Len(p)) : SubSeq(s, k + 1, k + Len(p)) = p

-----------------------------------------------------------------------------
(* normalizeDocUrl *)

CanonicalPrefix ==
    <<"h", "t", "t", "p", "s", ":", "/", "/", "d", "o", "c", "s", ".", "g",
      "o", "o", "g", "l", "e", ".", "c", "o", "m", "/", "d", "o", "c", "u",
      "m", "e", "n", "t", "/", "d", "/">>

DocsMarker ==
    <<"d", "o", "c", "s", ".", "g", "o", "o", "g", "l", "e", ".", "c", "o",
      "m", "/", "d", "o", "c", "u", "m", "e", "n", "t">>

EditSuffix == <<"/", "e", "d", "i", "t">>

\* the {20,} of the shortened-form pattern
MinTokenLen == 20

TokenChars == Range(Alpha) \cup Range(AlphaUp) \cup Digits \cup {"_", "-"}

\* /^[a-zA-Z0-9_-]{20,}$/.test(u)
IsBareToken(u) ==
    Len(u) >= MinTokenLen /\ \A i \in DOMAIN u : u[i] \in TokenChars

\* a normalizer that forgets to trim
normalizeUntrimmed(url) ==
    IF StartsWith(url, CanonicalPrefix) THEN url
    ELSE IF Includes(url, DocsMarker) THEN url
    ELSE IF IsBareToken(url) THEN CanonicalPrefix \o url \o EditSuffix
    ELSE url

normalizeDocUrl(url) ==
    LET u == Trim(url)
    IN  IF StartsWith(u, CanonicalPrefix) THEN u
        ELSE IF Includes(u, DocsMarker) THEN u
        ELSE IF IsBareToken(u) THEN CanonicalPrefix \o u \o EditSuffix
        ELSE u

-----------------------------------------------------------------------------
(* loadEssay *)

Has(o, k) == k \in DOMAIN o

ExtTxt == <<".", "t", "x", "t">>
ExtMd == <<".", "m", "d">>
ExtDoc == <<".", "d", "o", "c">>
ExtDocx == <<".", "d", "o", "c", "x">>

\* /\.(txt|md|docx?)$/i.test(trimmed)
HasEssayExtension(s) ==
    \E e \in {ExtTxt, ExtMd, ExtDoc, ExtDocx} : EndsWith(LowerStr(s), e)

mightBePath(trimmed) ==
    /\ ~ Includes(trimmed, <<"\n">>)
    /\ \/ Includes(trimmed, <<"/">>)
       \/ Includes(trimmed, <<"\\">>)
       \/ HasEssayExtension(trimmed)

\* The files readFile finds: a path that is not here makes readFile reject.
PathText == <<"/", "f">>
PathBlank == <<"/", "e">>
PathMissing == <<"/", "m">>
PathByExtension == <<"x", ".", "m", "d">>

FileSystem ==
    [p \in {PathText, PathBlank, PathByExtension} |->
        IF p = PathText THEN <<" ", "b", "\n">>
        ELSE IF p = PathBlank THEN <<" ", "\n">>
        ELSE <<"c", ",">>]

Readable(path) == path \in DOMAIN FileSystem

loadEssayDropsUnreadable(essay) ==
    LET trimmed == Trim(essay)
    IN  IF essay = <<>> THEN <<>>
        ELSE IF mightBePath(trimmed)
        THEN IF Readable(trimmed) THEN Trim(FileSystem[trimmed]) ELSE <<>>
        ELSE trimmed

loadEssay(essay) ==
    LET trimmed == Trim(essay)
    IN  IF essay = <<>> THEN <<>>
        ELSE IF mightBePath(trimmed)
        THEN IF Readable(trimmed) THEN Trim(FileSystem[trimmed]) ELSE trimmed
        ELSE trimmed

-----------------------------------------------------------------------------
(* Typing engine tables and options *)

\* a table that gives every character the same pause
punctuationDelayFlat(char) == 200

\* punctuationDelay: pauses[char] ?? 0
punctuationDelay(char) ==
    CASE char = "." -> 400
      [] char = "!" -> 350
      [] char = "?" -> 380
      [] char = "," -> 120
      [] char = ";" -> 180
      [] char = ":" -> 150
      [] char = "\n" -> 200
      [] OTHER -> 0

\* KEYBOARD_NEIGHBORS, in the order of Alpha
NeighborRows ==
    << <<"q", "s", "w", "z">>, <<"v", "n", "g", "h">>, <<"x", "v", "d", "f">>,
       <<"s", "f", "e", "r">>, <<"w", "r", "d", "f">>, <<"d", "g", "r", "t">>,
       <<"f", "h", "t", "y">>, <<"g", "j", "y", "u">>, <<"u", "o", "j", "k">>,
       <<"h", "k", "u", "i">>, <<"j", "l", "i", "o">>, <<"k", "o", "p">>,
       <<"n", "j", "k">>, <<"b", "m", "h", "j">>, <<"i", "p", "k", "l">>,
       <<"o", "l">>, <<"a", "w", "s">>, <<"e", "t", "d", "f">>,
       <<"a", "d", "q", "w">>, <<"r", "y", "f", "g">>, <<"y", "i", "h", "j">>,
       <<"c", "b", "f", "g">>, <<"q", "e", "a", "s">>, <<"z", "c", "s", "d">>,
       <<"t", "u", "g", "h">>, <<"a", "s", "x">> >>

\* KEYBOARD_NEIGHBORS[lower], the empty tuple standing for undefined
KEYBOARD_NEIGHBORS(lower) ==
    IF \E i \in DOMAIN Alpha : Alpha[i] = lower
    THEN NeighborRows[CHOOSE i \in DOMAIN Alpha : Alpha[i] = lower]
    ELSE <<>>

\* Built-in defaults of the engine options (typoChance in hundredths)
DefaultWpm == 45
DefaultWpmVariance == 10
DefaultTypoChance == 2
DefaultBreakEveryChars == 0
DefaultBreakDurationMs == 5000

OptionKeys ==
    {"wpm", "wpmVariance", "simulateTypos", "typoChance", "punctuationPauses",
     "breakEveryChars", "breakDurationMs"}

BuiltIn ==
    [wpm |-> DefaultWpm, wpmVariance |-> DefaultWpmVariance,
     simulateTypos |-> FALSE, typoChance |-> DefaultTypoChance,
     punctuationPauses |-> TRUE, breakEveryChars |-> DefaultBreakEveryChars,
     breakDurationMs |-> DefaultBreakDurationMs]

BoolKeys == {"simulateTypos", "punctuationPauses"}

\* whether the value v of option k is falsy (false, or the number 0)
Falsy(k, v) == IF k \in BoolKeys THEN v = FALSE ELSE v = 0

\* job[k] || d : a falsy override gives way to the default
OrDefault(job, k, d) == IF Has(job, k) /\ ~ Falsy(k, job[k]) THEN job[k] ELSE d

\* job[k] ?? d
Nullish(job, k, d) == IF Has(job, k) THEN job[k] ELSE d

\* the options object runJob hands to typeWithHumanSpeed
EngineOptions(job) == [k \in OptionKeys |-> Nullish(job, k, BuiltIn[k])]

\* { ...a, ...b }
Spread(a, b) ==
    [k \in DOMAIN a \cup DOMAIN b |-> IF k \in DOMAIN b THEN b[k] ELSE a[k]]

SpreadJobFirst(a, b) == Spread(b, a)

\* loadConfig: every job is { ...options, ...j }
MergeConfigJob(options, j) == Spread(options, j)

loadConfig(cfg) ==
    [jobs |-> [i \in DOMAIN cfg.jobs |-> MergeConfigJob(cfg.options, cfg.jobs[i])],
     options |-> cfg.options]

-----------------------------------------------------------------------------
(* The job descriptors handed to runAgent *)

UrlCanonical == CanonicalPrefix \o <<"D", "1">> \o EditSuffix
UrlPadded == <<" ">> \o UrlCanonical \o <<" ">>
UrlToken ==
    <<"a", "B", "3", "_", "e", "f", "g", "h", "i", "j", "-", "1", "2", "3",
      "4", "5", "6", "7", "8", "9">>
UrlShortToken == SubSeq(UrlToken, 1, Len(UrlToken) - 1)
UrlNoScheme == DocsMarker \o <<"/", "d", "/", "D", "1">>
UrlOther == <<"h", "t", "t", "p", ":", "/", "/", "x">>

JobInline == [essayContent |-> <<"a">>, docUrl |-> UrlPadded]
JobBlankContent ==
    [essayContent |-> <<" ">>, essay |-> PathText, docUrl |-> UrlCanonical]
JobFromFile == [essay |-> PathText, docUrl |-> UrlToken]
JobMissingFile == [essay |-> PathMissing, docUrl |-> UrlOther]
JobBlankFile == [essay |-> PathBlank, docUrl |-> UrlCanonical]
JobNoContent == [docUrl |-> UrlCanonical]
JobByExtension == [essay |-> PathByExtension, docUrl |-> UrlNoScheme]
JobTypos ==
    [essay |-> <<" ", "P", ".">>, docUrl |-> UrlShortToken,
     simulateTypos |-> TRUE, typoChance |-> 100, breakEveryChars |-> 1]

JobPool ==
    {JobInline, JobBlankContent, JobFromFile, JobMissingFile, JobBlankFile,
     JobNoContent, JobByExtension, JobTypos}

\* The descriptors of the parallel runs: three concurrent jobs of every
\* kind are too many states, so these runs take one job of inline text,
\* one of an unreadable path and one that is excluded.
ParallelPool == {JobInline, JobMissingFile, JobBlankContent}

JobIds == 1 .. MaxJobs

JobLists(pool) == UNION { [1 .. n -> pool] : n \in 0 .. MaxJobs }

-----------------------------------------------------------------------------
(* State *)

NoConfig == [options |-> <<>>, jobs |-> <<>>]
NoUrl == <<>>
NoError == [job |-> 0, at |-> "none"]
Error(r, at) == [job |-> r, at |-> at]
NoOptions == <<>>

\* shouldStop() turned true when n characters were typed, the engine at pc
StopAt(n, pc) == [n |-> n, pc |-> pc]
NoStop == StopAt(-1, "none")

InitRun ==
    /\ agentState = "pending"
    /\ cursor = 1
    /\ resolvedJobs = <<>>
    /\ warnings = <<>>
    /\ sessionOpens = 0
    /\ sessionClosed = FALSE
    /\ opened = <<>>
    /\ jpc = [r \in JobIds |-> "idle"]
    /\ idx = [r \in JobIds |-> 0]
    /\ keys = [r \in JobIds |-> <<>>]
    /\ onStartCount = [r \in JobIds |-> 0]
    /\ onCompleteLog = [r \in JobIds |-> <<>>]
    /\ progressLog = [r \in JobIds |-> <<>>]
    /\ thrown = [r \in JobIds |-> NoError]
    /\ navigatedTo = [r \in JobIds |-> NoUrl]
    /\ engineOpts = [r \in JobIds |-> NoOptions]
    /\ focused = [r \in JobIds |-> FALSE]
    /\ pageClosed = [r \in JobIds |-> FALSE]
    /\ stopped = [r \in JobIds |-> FALSE]
    /\ paused = [r \in JobIds |-> FALSE]
    /\ pageOf = [r \in JobIds |-> 0]
    /\ extraLog = [r \in JobIds |-> <<>>]
    /\ breakLog = [r \in JobIds |-> <<>>]
    /\ stopSince = [r \in JobIds |-> NoStop]

\* runAgent(jobs, { sequential, closeTabOnComplete }) has just been called
Init ==
    /\ config = NoConfig
    /\ sequential \in BOOLEAN
    /\ jobs \in JobLists(IF sequential THEN JobPool ELSE ParallelPool)
    /\ closeTabOnComplete \in BOOLEAN
    /\ agentPc = "resolve"
    /\ InitRun

-----------------------------------------------------------------------------
(* runAgent: resolving the job descriptors *)

\* lines 158-163: the content of descriptor j
ResolveContent(j) ==
    IF Has(j, "essayContent") THEN Trim(j.essayContent)
    ELSE IF Has(j, "essay") THEN loadEssay(j.essay)
    ELSE <<>>

\* a resolver that skips nothing
ExcludeNothing(essay) == FALSE

\* if (!essay) { warn; continue }
ExcludeJob(essay) == essay = <<>>

\* The resolved job.  The field raw is the position of the descriptor in
\* jobs: it stands for the identity of the job object the callbacks receive.
ResolvedJob(j, essay, raw) ==
    Spread(j, [essay |-> essay, docUrl |-> normalizeDocUrl(j.docUrl), raw |-> raw])

ResolveJob ==
    /\ agentPc = "resolve"
    /\ cursor <= Len(jobs)
    /\ LET j == jobs[cursor]
           essay == ResolveContent(j)
       IN  IF ExcludeJob(essay)
           THEN /\ warnings' = Append(warnings, cursor)
                /\ UNCHANGED resolvedJobs
           ELSE /\ resolvedJobs' = Append(resolvedJobs, ResolvedJob(j, essay, cursor))
                /\ UNCHANGED warnings
    /\ cursor' = cursor + 1
    /\ UNCHANGED << config, jobs, sequential, closeTabOnComplete, agentPc,
                    agentState, sessionOpens, sessionClosed, opened, jpc, idx,
                    keys, onStartCount, onCompleteLog, progressLog, thrown,
                    navigatedTo, engineOpts, focused, pageClosed, stopped, paused, pageOf, extraLog, breakLog, stopSince >>

\* lines 175-178: nothing to run
NoValidJobs ==
    /\ agentPc = "resolve"
    /\ cursor > Len(jobs)
    /\ resolvedJobs = <<>>
    /\ agentPc' = "done"
    /\ agentState' = "resolved"
    /\ UNCHANGED << config, jobs, sequential, closeTabOnComplete, cursor,
                    resolvedJobs, warnings, sessionOpens, sessionClosed, opened,
                    jpc, idx, keys, onStartCount, onCompleteLog, progressLog,
                    thrown, navigatedTo, engineOpts, focused, pageClosed,
                    stopped, paused, pageOf, extraLog, breakLog, stopSince >>

\* lines 180-198: chromium.launchPersistentContext, which may reject
Launch ==
    /\ agentPc = "resolve"
    /\ cursor > Len(jobs)
    /\ resolvedJobs # <<>>
    /\ sessionOpens' = sessionOpens + 1
    /\ \E ok \in BOOLEAN :
          IF ok
          THEN /\ agentPc' = IF sequential THEN "seqNext" ELSE "map"
               /\ cursor' = 1
               /\ UNCHANGED agentState
          ELSE /\ agentPc' = "done"
               /\ agentState' = "rejected"
               /\ UNCHANGED cursor
    /\ UNCHANGED << config, jobs, sequential, closeTabOnComplete, resolvedJobs,
                    warnings, sessionClosed, opened, jpc, idx, keys,
                    onStartCount, onCompleteLog, progressLog, thrown,
                    navigatedTo, engineOpts, focused, pageClosed, stopped, paused, pageOf, extraLog, breakLog, stopSince >>

-----------------------------------------------------------------------------
(* runJob, up to its first await *)

\* the job with raw index r, as resolved
JobOf(r) ==
    resolvedJobs[CHOOSE k \in DOMAIN resolvedJobs : resolvedJobs[k].raw = r]

IsResolved(r) == \E k \in DOMAIN resolvedJobs : resolvedJobs[k].raw = r

\* runOptions.closeTabOnComplete as runAgent passes it (lines 223 and 233)
CloseTabFlag ==
    IF sequential
    THEN Len(resolvedJobs) > 1 /\ closeTabOnComplete
    ELSE closeTabOnComplete

\* lines 84-94: runJob runs synchronously to its first await.  With a
\* non-empty job.essay that is the await of context.newPage(), after
\* onJobStart; otherwise runJob throws before onJobStart.
CallRunJob(job) ==
    LET r == job.raw
    IN  IF job.essay = <<>>
        THEN /\ thrown' = [thrown EXCEPT ![r] = Error(r, "noEssay")]
             /\ jpc' = [jpc EXCEPT ![r] = "rejected"]
             /\ UNCHANGED << onStartCount, opened >>
        ELSE /\ onStartCount' = [onStartCount EXCEPT ![r] = @ + 1]
             /\ opened' = Append(opened, r)
             /\ jpc' = [jpc EXCEPT ![r] = "newPage"]
             /\ UNCHANGED thrown

Ended(r) == jpc[r] \in {"fulfilled", "rejected"}

AgentVars ==
    << config, jobs, sequential, closeTabOnComplete, agentPc, agentState,
       cursor, resolvedJobs, warnings, sessionOpens, sessionClosed >>

-----------------------------------------------------------------------------
(* runAgent: sequential mode, lines 217-225 *)

SeqCall ==
    /\ agentPc = "seqNext"
    /\ cursor <= Len(resolvedJobs)
    /\ CallRunJob(resolvedJobs[cursor])
    /\ agentPc' = "seqAwait"
    /\ UNCHANGED << config, jobs, sequential, closeTabOnComplete, agentState,
                    cursor, resolvedJobs, warnings, sessionOpens, sessionClosed,
                    idx, keys, onCompleteLog, progressLog, navigatedTo,
                    engineOpts, focused, pageClosed, stopped, paused, pageOf, extraLog, breakLog, stopSince >>

\* a finally block that closes the context
FinallyClosesContext == TRUE

\* lines 238-241: the finally block logs a line and leaves the context as
\* it is ("Keep browser/context open so user can review")
ContextClosedAfterFinally == sessionClosed

\* a for-of loop that does not await the runJob call
RunJobNotAwaited(r) == TRUE

\* await runJob(...): the loop goes on once the call has settled
RunJobAwaited(r) == Ended(r)

\* the awaited call settles: the loop takes the next job, or a rejection
\* leaves the loop through the finally of lines 238-241 and rejects runAgent
SeqResume ==
    /\ agentPc = "seqAwait"
    /\ LET r == resolvedJobs[cursor].raw
       IN  /\ RunJobAwaited(r)
           /\ IF jpc[r] = "rejected"
              THEN /\ agentPc' = "done"
                   /\ agentState' = "rejected"
                   /\ UNCHANGED cursor
              ELSE IF cursor = Len(resolvedJobs)
              THEN /\ agentPc' = "done"
                   /\ agentState' = "resolved"
                   /\ UNCHANGED cursor
              ELSE /\ agentPc' = "seqNext"
                   /\ cursor' = cursor + 1
                   /\ UNCHANGED agentState
    /\ sessionClosed' =
          IF agentPc' = "done" THEN ContextClosedAfterFinally ELSE sessionClosed
    /\ UNCHANGED << config, jobs, sequential, closeTabOnComplete, resolvedJobs,
                    warnings, sessionOpens, opened, jpc, idx,
                    keys, onStartCount, onCompleteLog, progressLog, thrown,
                    navigatedTo, engineOpts, focused, pageClosed, stopped, paused, pageOf, extraLog, breakLog, stopSince >>

-----------------------------------------------------------------------------
(* runAgent: parallel mode, lines 226-237 *)

\* resolvedJobs.map(job => runJob(...)): one call after the other, each run
\* to its first await, with no continuation of any job in between
MapCall ==
    /\ agentPc = "map"
    /\ cursor <= Len(resolvedJobs)
    /\ CallRunJob(resolvedJobs[cursor])
    /\ cursor' = cursor + 1
    /\ agentPc' = IF cursor = Len(resolvedJobs) THEN "awaitAll" ELSE "map"
    /\ UNCHANGED << config, jobs, sequential, closeTabOnComplete, agentState,
                    resolvedJobs, warnings, sessionOpens, sessionClosed,
                    idx, keys, onCompleteLog, progressLog, navigatedTo,
                    engineOpts, focused, pageClosed, stopped, paused, pageOf, extraLog, breakLog, stopSince >>

ResolvedIds == { resolvedJobs[k].raw : k \in DOMAIN resolvedJobs }

\* Promise.all(promises) settles: rejected with the first rejection, or
\* fulfilled once every promise is
PromiseAllReady ==
    /\ agentPc = "awaitAll"
    /\ \/ \E r \in ResolvedIds : jpc[r] = "rejected"
       \/ \A r \in ResolvedIds : jpc[r] = "fulfilled"

AwaitAll ==
    /\ PromiseAllReady
    /\ agentPc' = "done"
    /\ agentState' =
          IF \E r \in ResolvedIds : jpc[r] = "rejected" THEN "rejected" ELSE "resolved"
    /\ sessionClosed' = ContextClosedAfterFinally
    /\ UNCHANGED << config, jobs, sequential, closeTabOnComplete, cursor,
                    resolvedJobs, warnings, sessionOpens, opened,
                    jpc, idx, keys, onStartCount, onCompleteLog, progressLog,
                    thrown, navigatedTo, engineOpts, focused, pageClosed,
                    stopped, paused, pageOf, extraLog, breakLog, stopSince >>

\* continuations that run whenever their await is over, the caller's
\* synchronous code included
RunnableAnyTime(r) == TRUE

\* a first failure that cancels the jobs still running
RunnableUntilFailure(r) ==
    /\ agentPc # "map"
    /\ ~ PromiseAllReady
    /\ \A q \in JobIds : thrown[q] = NoError

\* The continuation of job r after an await may run: never inside the
\* synchronous map of line 228, and not before the pending continuation
\* of runAgent itself (a promise reaction runs before any timer or I/O task).
Runnable(r) == agentPc # "map" /\ ~ PromiseAllReady

-----------------------------------------------------------------------------
(* runJob after its first await, and typeWithHumanSpeed *)

Text(r) == JobOf(r).essay

Char(r) == Text(r)[idx[r] + 1]

\* a runJob that reports a keyboard error and lets the engine go on
FinishKeepsTyping(r, err) ==
    /\ onCompleteLog' = [onCompleteLog EXCEPT ![r] = Append(@, err)]
    /\ thrown' = [thrown EXCEPT ![r] = err]
    /\ jpc' = [jpc EXCEPT ![r] =
                 IF err.at \in {"type", "press"} THEN "gate"
                 ELSE IF CloseTabFlag THEN "closing"
                 ELSE IF err = NoError THEN "fulfilled" ELSE "rejected"]

\* lines 118-127: onJobComplete(job, err), a rethrow of err unless it is
\* null, and the finally block, whose page.close() is awaited
Finish(r, err) ==
    /\ onCompleteLog' = [onCompleteLog EXCEPT ![r] = Append(@, err)]
    /\ thrown' = [thrown EXCEPT ![r] = err]
    /\ jpc' = [jpc EXCEPT ![r] =
                 IF CloseTabFlag THEN "closing"
                 ELSE IF err = NoError THEN "fulfilled" ELSE "rejected"]

\* a context that hands out one page per document: the page of a job with
\* the same docUrl if there is one
PageOfUrl(r) ==
    IF \E q \in JobIds : pageOf[q] # 0 /\ JobOf(q).docUrl = JobOf(r).docUrl
    THEN pageOf[CHOOSE q \in JobIds :
                    pageOf[q] # 0 /\ JobOf(q).docUrl = JobOf(r).docUrl]
    ELSE CHOOSE i \in DOMAIN opened : opened[i] = r

\* the Page object context.newPage() resolves to: a new one at every call,
\* named here by the number of the call that made it
NewPageOf(r) == CHOOSE i \in DOMAIN opened : opened[i] = r

\* line 94: context.newPage() settles; a rejection leaves runJob before
\* its try block
NewPage(r) ==
    /\ jpc[r] = "newPage"
    /\ Runnable(r)
    /\ \E ok \in BOOLEAN :
          IF ok
          THEN /\ jpc' = [jpc EXCEPT ![r] = "goto"]
               /\ pageOf' = [pageOf EXCEPT ![r] = NewPageOf(r)]
               /\ UNCHANGED thrown
          ELSE /\ jpc' = [jpc EXCEPT ![r] = "rejected"]
               /\ thrown' = [thrown EXCEPT ![r] = Error(r, "newPage")]
               /\ UNCHANGED pageOf
    /\ UNCHANGED << AgentVars, opened, idx, keys, onStartCount, onCompleteLog,
                    progressLog, navigatedTo, engineOpts, focused, pageClosed,
                    stopped, paused, extraLog, breakLog, stopSince >>

\* lines 97-116: page.goto(docUrl) and the waits for the editor; then
\* typeWithHumanSpeed is called with the options of lines 106-112
Navigate(r) ==
    /\ jpc[r] = "goto"
    /\ Runnable(r)
    /\ navigatedTo' = [navigatedTo EXCEPT ![r] = normalizeDocUrl(JobOf(r).docUrl)]
    /\ \E ok \in BOOLEAN :
          IF ok
          THEN /\ jpc' = [jpc EXCEPT ![r] = "focus"]
               /\ engineOpts' = [engineOpts EXCEPT ![r] = EngineOptions(JobOf(r))]
               /\ UNCHANGED << onCompleteLog, thrown >>
          ELSE /\ Finish(r, Error(r, "goto"))
               /\ UNCHANGED engineOpts
    /\ UNCHANGED << AgentVars, opened, idx, keys, onStartCount, progressLog,
                    focused, pageClosed, stopped, paused, pageOf, extraLog, breakLog, stopSince >>

\* typer.js lines 86-99: a click on the first selector that takes it; a
\* failing click is skipped, a rejecting count() is not caught
Focus(r) ==
    /\ jpc[r] = "focus"
    /\ Runnable(r)
    /\ \E outcome \in {"clicked", "none", "error"} :
          IF outcome = "error"
          THEN /\ Finish(r, Error(r, "focus"))
               /\ UNCHANGED << focused, idx >>
          ELSE /\ focused' = [focused EXCEPT ![r] = (outcome = "clicked")]
               /\ idx' = [idx EXCEPT ![r] = 0]
               /\ jpc' = [jpc EXCEPT ![r] = "gate"]
               /\ UNCHANGED << onCompleteLog, thrown >>
    /\ UNCHANGED << AgentVars, opened, keys, onStartCount, progressLog,
                    navigatedTo, engineOpts, pageClosed, stopped, paused, pageOf, extraLog, breakLog, stopSince >>

\* the values Math.random() is drawn from, in hundredths
Rolls == {0, 50, 99}

\* typer.js lines 113-115: whether a wrong key precedes the character
TypoBefore(r, roll) ==
    /\ engineOpts[r].simulateTypos
    /\ engineOpts[r].typoChance > 0
    /\ roll < engineOpts[r].typoChance
    /\ KEYBOARD_NEIGHBORS(ToLower(Char(r))) # <<>>
    /\ Char(r) # "\n"

\* an engine that never asks whether to stop
NeverStops(r) == FALSE

\* an engine that asks whether to stop before the first character only
StopsAtStartOnly(r) == stopped[r] /\ idx[r] = 0

\* typer.js line 102: shouldStop(), which runJob gives as () => state.stopped
ShouldStop(r) == stopped[r]

\* an engine that never asks whether it is paused
NeverPaused(r) == FALSE

\* typer.js line 104: isPaused(), which runJob gives as () => state.paused
IsPaused(r) == paused[r]

\* typer.js lines 101-115, the head of the loop: the end of the text or a
\* stop ends the call, a pause enters the poll loop, otherwise the
\* character is typed, after a wrong key or not
Gate(r) ==
    /\ jpc[r] = "gate"
    /\ Runnable(r)
    /\ IF idx[r] >= Len(Text(r)) \/ ShouldStop(r)
       THEN Finish(r, NoError)
       ELSE /\ \E roll \in Rolls :
                 jpc' = [jpc EXCEPT ![r] =
                           IF IsPaused(r) THEN "pausePoll"
                           ELSE IF TypoBefore(r, roll) THEN "wrong"
                           ELSE "emit"]
            /\ UNCHANGED << onCompleteLog, thrown >>
    /\ UNCHANGED << AgentVars, opened, idx, keys, onStartCount, progressLog,
                    navigatedTo, engineOpts, focused, pageClosed, stopped, paused, pageOf, extraLog, breakLog, stopSince >>

\* typer.js lines 104-106: the poll loop is left once isPaused() is false
PausePoll(r) ==
    /\ jpc[r] = "pausePoll"
    /\ Runnable(r)
    /\ ~ IsPaused(r)
    /\ \E roll \in Rolls :
          jpc' = [jpc EXCEPT ![r] = IF TypoBefore(r, roll) THEN "wrong" ELSE "emit"]
    /\ UNCHANGED << AgentVars, opened, idx, keys, onStartCount, onCompleteLog,
                    progressLog, thrown, navigatedTo, engineOpts, focused,
                    pageClosed, stopped, paused, pageOf, extraLog, breakLog, stopSince >>

KeyType(ch) == [op |-> "type", ch |-> ch]
KeyPress(key) == [op |-> "press", ch |-> key]

\* wrong keys that are not put in the case of the character
WrongKeysLower(char) == Range(KEYBOARD_NEIGHBORS(ToLower(char)))

\* typer.js lines 116-119: a neighbour of the character, in its case
WrongKeys(char) ==
    LET row == KEYBOARD_NEIGHBORS(ToLower(char))
        upper == char = ToUpper(char) /\ char # ToLower(char)
    IN  { IF upper THEN ToUpper(row[i]) ELSE row[i] : i \in DOMAIN row }

TypeWrong(r) ==
    /\ jpc[r] = "wrong"
    /\ Runnable(r)
    /\ \E ok \in BOOLEAN :
          IF ok
          THEN /\ \E w \in WrongKeys(Char(r)) :
                    keys' = [keys EXCEPT ![r] = Append(@, KeyType(w))]
               /\ jpc' = [jpc EXCEPT ![r] = "back"]
               /\ UNCHANGED << onCompleteLog, thrown >>
          ELSE /\ Finish(r, Error(r, "type"))
               /\ UNCHANGED keys
    /\ UNCHANGED << AgentVars, opened, idx, onStartCount, progressLog,
                    navigatedTo, engineOpts, focused, pageClosed, stopped, paused, pageOf, extraLog, breakLog, stopSince >>

\* the wrong key is left on the page: no Backspace is pressed
BackspaceNotSent(r) ==
    /\ jpc[r] = "back"
    /\ Runnable(r)
    /\ jpc' = [jpc EXCEPT ![r] = "emit"]
    /\ UNCHANGED << AgentVars, opened, idx, keys, onStartCount, onCompleteLog,
                    progressLog, thrown, navigatedTo, engineOpts, focused,
                    pageClosed, stopped, paused, pageOf, extraLog, breakLog,
                    stopSince >>

\* typer.js lines 120-122
Backspace(r) ==
    /\ jpc[r] = "back"
    /\ Runnable(r)
    /\ \E ok \in BOOLEAN :
          IF ok
          THEN /\ keys' = [keys EXCEPT ![r] = Append(@, KeyPress("Backspace"))]
               /\ jpc' = [jpc EXCEPT ![r] = "emit"]
               /\ UNCHANGED << onCompleteLog, thrown >>
          ELSE /\ Finish(r, Error(r, "press"))
               /\ UNCHANGED keys
    /\ UNCHANGED << AgentVars, opened, idx, onStartCount, progressLog,
                    navigatedTo, engineOpts, focused, pageClosed, stopped, paused, pageOf, extraLog, breakLog, stopSince >>

\* a break after the last character too
BreakDueAtEnd(r) ==
    /\ engineOpts[r].breakEveryChars > 0
    /\ (idx[r] + 1) % engineOpts[r].breakEveryChars = 0

\* typer.js line 142
BreakDue(r) ==
    /\ engineOpts[r].breakEveryChars > 0
    /\ (idx[r] + 1) % engineOpts[r].breakEveryChars = 0
    /\ idx[r] < Len(Text(r)) - 1

\* an extra sleep after every character
PunctuationAfterAll(r) == engineOpts[r].punctuationPauses

\* typer.js line 143: the break after the character at i
Break(r) == [at |-> idx[r] + 1, ms |-> engineOpts[r].breakDurationMs]

\* typer.js line 136
PunctuationDue(r) ==
    engineOpts[r].punctuationPauses /\ punctuationDelay(Char(r)) > 0

\* typer.js line 137: the extra sleep after the character at i, without
\* the randomDelay(0, 200) added to it
Extra(r) == [at |-> idx[r] + 1, ch |-> Char(r), ms |-> punctuationDelay(Char(r))]

\* typer.js lines 146-147 and 101: the closing sleep, and i++
NextChar(r) ==
    /\ idx' = [idx EXCEPT ![r] = @ + 1]
    /\ jpc' = [jpc EXCEPT ![r] = "gate"]

\* typer.js lines 126-139: the character goes out (Enter for a line break),
\* onProgress is called, and the pauses that follow are chosen
Emit(r) ==
    /\ jpc[r] = "emit"
    /\ Runnable(r)
    /\ \E ok \in BOOLEAN :
          IF ok
          THEN /\ keys' = [keys EXCEPT ![r] =
                             Append(@, IF Char(r) = "\n" THEN KeyPress("Enter")
                                       ELSE KeyType(Char(r)))]
               /\ progressLog' = [progressLog EXCEPT ![r] = Append(@, idx[r] + 1)]
               /\ IF PunctuationDue(r)
                  THEN /\ jpc' = [jpc EXCEPT ![r] = "punct"]
                       /\ extraLog' = [extraLog EXCEPT ![r] = Append(@, Extra(r))]
                       /\ UNCHANGED idx
                  ELSE IF BreakDue(r)
                  THEN /\ jpc' = [jpc EXCEPT ![r] = "brk"]
                       /\ UNCHANGED << idx, extraLog >>
                  ELSE NextChar(r) /\ UNCHANGED extraLog
               /\ breakLog' =
                     IF ~ PunctuationDue(r) /\ BreakDue(r)
                     THEN [breakLog EXCEPT ![r] = Append(@, Break(r))]
                     ELSE breakLog
               /\ UNCHANGED << onCompleteLog, thrown >>
          ELSE /\ Finish(r, Error(r, "type"))
               /\ UNCHANGED << keys, progressLog, idx, extraLog, breakLog >>
    /\ UNCHANGED << AgentVars, opened, onStartCount, navigatedTo, engineOpts,
                    focused, pageClosed, stopped, paused, pageOf, stopSince >>

\* typer.js lines 136-139: the pause after a punctuation mark is over
PunctuationPause(r) ==
    /\ jpc[r] = "punct"
    /\ Runnable(r)
    /\ IF BreakDue(r)
       THEN /\ jpc' = [jpc EXCEPT ![r] = "brk"]
            /\ breakLog' = [breakLog EXCEPT ![r] = Append(@, Break(r))]
            /\ UNCHANGED idx
       ELSE NextChar(r) /\ UNCHANGED breakLog
    /\ UNCHANGED << AgentVars, opened, keys, onStartCount, onCompleteLog,
                    progressLog, thrown, navigatedTo, engineOpts, focused,
                    pageClosed, stopped, paused, pageOf, extraLog, stopSince >>

\* typer.js lines 142-144: the break is over
BreakPause(r) ==
    /\ jpc[r] = "brk"
    /\ Runnable(r)
    /\ NextChar(r)
    /\ UNCHANGED << AgentVars, opened, keys, onStartCount, onCompleteLog,
                    progressLog, thrown, navigatedTo, engineOpts, focused,
                    pageClosed, stopped, paused, pageOf, extraLog, breakLog, stopSince >>

\* lines 124-126: page.close() is over, whether it failed or not, and the
\* call settles the way the try block left it
ClosePage(r) ==
    /\ jpc[r] = "closing"
    /\ Runnable(r)
    /\ pageClosed' = [pageClosed EXCEPT ![r] = TRUE]
    /\ jpc' = [jpc EXCEPT ![r] = IF thrown[r] = NoError THEN "fulfilled" ELSE "rejected"]
    /\ UNCHANGED << AgentVars, opened, idx, keys, onStartCount, onCompleteLog,
                    progressLog, thrown, navigatedTo, engineOpts, focused,
                    stopped, paused, pageOf, extraLog, breakLog, stopSince >>

JobStep(r) ==
    \/ NewPage(r)
    \/ Navigate(r)
    \/ Focus(r)
    \/ Gate(r)
    \/ TypeWrong(r)
    \/ Backspace(r)
    \/ Emit(r)
    \/ PunctuationPause(r)
    \/ BreakPause(r)
    \/ ClosePage(r)

Next ==
    \/ ResolveJob
    \/ NoValidJobs
    \/ Launch
    \/ SeqCall
    \/ SeqResume
    \/ MapCall
    \/ AwaitAll
    \/ \E r \in JobIds : JobStep(r)

Spec == Init /\ [][Next]_vars

-----------------------------------------------------------------------------
(* The run started from a config file: cli.js --config, then runAgent *)

\* two values of every option, a falsy one among them
AltA ==
    [wpm |-> 60, wpmVariance |-> 0, simulateTypos |-> TRUE, typoChance |-> 100,
     punctuationPauses |-> FALSE, breakEveryChars |-> 1, breakDurationMs |-> 0]

AltB ==
    [wpm |-> 80, wpmVariance |-> 5, simulateTypos |-> FALSE, typoChance |-> 0,
     punctuationPauses |-> TRUE, breakEveryChars |-> 0, breakDurationMs |-> 100]

\* the object with the keys ks of o
Pick(o, ks) == [k \in ks |-> o[k]]

KeyOrder ==
    <<"wpm", "wpmVariance", "simulateTypos", "typoChance", "punctuationPauses",
      "breakEveryChars", "breakDurationMs">>

\* How option k is given in a config file of shift s: 0 nowhere, 1 by the
\* job only, 2 by the global options only, 3 by both.
PatternOf(k, s) == ((CHOOSE i \in DOMAIN KeyOrder : KeyOrder[i] = k) + s) % 4

\* the three ways one option is given in an object: absent, AltA, AltB
OneOption(f) == {<<>>, Pick(AltA, {f}), Pick(AltB, {f})}

ConfigJobBase == [essay |-> <<",", "p">>, docUrl |-> UrlCanonical]

\* The config files: one option f is given in every way by the job and by
\* the global options, the other options follow the patterns of a shift;
\* the files of shift 0 also set sequential; one file has no job.
ConfigFiles ==
    { [options |-> <<>>, jobs |-> <<>>] } \cup
    UNION { { [options |->
                 Spread(Spread(Pick(AltB, {k \in OptionKeys \ {f} : PatternOf(k, s) \in {2, 3}}),
                               IF s = 0 THEN [sequential |-> FALSE] ELSE <<>>),
                        go),
               jobs |->
                 << Spread(Spread(ConfigJobBase,
                                  Pick(AltA, {k \in OptionKeys \ {f} : PatternOf(k, s) \in {1, 3}})),
                           jo) >>] :
                go \in OneOption(f), jo \in OneOption(f) } :
            f \in OptionKeys, s \in 0 .. 3 }

\* cli.js has parsed its flags and is about to read the config file
InitConfig ==
    /\ config \in ConfigFiles
    /\ jobs = <<>>
    /\ sequential \in BOOLEAN
    /\ closeTabOnComplete \in BOOLEAN
    /\ agentPc = "config"
    /\ InitRun

\* cli.js lines 60-62 and 91: the jobs of loadConfig go to runAgent, with
\* the sequential of the config options if it has one
LoadConfigStep ==
    /\ agentPc = "config"
    /\ jobs' = loadConfig(config).jobs
    /\ sequential' =
          IF Has(config.options, "sequential") THEN config.options.sequential
          ELSE sequential
    /\ agentPc' = "resolve"
    /\ UNCHANGED << config, closeTabOnComplete, agentState, cursor, resolvedJobs,
                    warnings, sessionOpens, sessionClosed, opened, jpc, idx,
                    keys, onStartCount, onCompleteLog, progressLog, thrown,
                    navigatedTo, engineOpts, focused, pageClosed, stopped, paused, pageOf, extraLog, breakLog, stopSince >>

NextConfig == LoadConfigStep \/ Next

SpecConfig == InitConfig /\ [][NextConfig]_vars

-----------------------------------------------------------------------------
(* typeWithHumanSpeed with stop and pause predicates of the caller's own *)

\* The engine is exported (index.js) and takes shouldStop and isPaused from
\* its caller.  Here it is called the way runJob calls it (lines 105-118),
\* but the values the two predicates return change as the caller likes.

TextHi == <<"H", "i", ".">>
TextCat == <<"c", "a", "t">>
TextMixed == <<",", "\n", "7", "!">>
TextClause == <<".", ",", "x">>

TyperTexts == {TextHi, TextCat, TextMixed, TextClause}

\* typoChance 0, the default and 1; breaks off, after every character or
\* after every second one
TyperOptions ==
    { [BuiltIn EXCEPT !.simulateTypos = st, !.typoChance = tc,
                      !.punctuationPauses = pp, !.breakEveryChars = be] :
        st \in BOOLEAN, tc \in {0, DefaultTypoChance, 100},
        pp \in BOOLEAN, be \in {0, 1, 2} }

\* the one job of these runs
TyperJob == 1

\* runJob stands at line 105, about to call typeWithHumanSpeed for its job
InitTyper ==
    /\ config = NoConfig
    /\ sequential = TRUE
    /\ closeTabOnComplete = FALSE
    /\ agentPc = "engine"
    /\ agentState = "pending"
    /\ cursor = 1
    /\ \E text \in TyperTexts :
          /\ jobs = << [essayContent |-> text, docUrl |-> UrlCanonical] >>
          /\ resolvedJobs = << ResolvedJob(jobs[1], text, TyperJob) >>
    /\ warnings = <<>>
    /\ sessionOpens = 1
    /\ sessionClosed = FALSE
    /\ opened = << TyperJob >>
    /\ jpc = [r \in JobIds |-> IF r = TyperJob THEN "focus" ELSE "idle"]
    /\ idx = [r \in JobIds |-> 0]
    /\ keys = [r \in JobIds |-> <<>>]
    /\ onStartCount = [r \in JobIds |-> IF r = TyperJob THEN 1 ELSE 0]
    /\ onCompleteLog = [r \in JobIds |-> <<>>]
    /\ progressLog = [r \in JobIds |-> <<>>]
    /\ thrown = [r \in JobIds |-> NoError]
    /\ navigatedTo = [r \in JobIds |-> IF r = TyperJob THEN UrlCanonical ELSE NoUrl]
    /\ \E o \in TyperOptions :
          engineOpts = [r \in JobIds |-> IF r = TyperJob THEN o ELSE NoOptions]
    /\ focused = [r \in JobIds |-> FALSE]
    /\ pageClosed = [r \in JobIds |-> FALSE]
    /\ \E b \in BOOLEAN : stopped = [r \in JobIds |-> r = TyperJob /\ b]
    /\ \E b \in BOOLEAN : paused = [r \in JobIds |-> r = TyperJob /\ b]
    /\ pageOf = [r \in JobIds |-> IF r = TyperJob THEN 1 ELSE 0]
    /\ extraLog = [r \in JobIds |-> <<>>]
    /\ breakLog = [r \in JobIds |-> <<>>]
    /\ stopSince = [r \in JobIds |-> IF stopped[r] THEN StopAt(0, "focus") ELSE NoStop]

\* the engine of job r is at work: between its call and its return
InEngine(r) == jpc[r] \in {"focus", "gate", "pausePoll", "wrong", "back", "emit", "punct", "brk"}

\* what shouldStop() returns changes
ShouldStopChanges(r) ==
    /\ InEngine(r)
    /\ stopped' = [stopped EXCEPT ![r] = ~ @]
    /\ stopSince' = [stopSince EXCEPT ![r] =
                       IF stopped[r] THEN NoStop
                       ELSE StopAt(Len(progressLog[r]), jpc[r])]
    /\ UNCHANGED << AgentVars, opened, jpc, idx, keys, onStartCount,
                    onCompleteLog, progressLog, thrown, navigatedTo,
                    engineOpts, focused, pageClosed, paused, pageOf, extraLog,
                    breakLog >>

\* what isPaused() returns changes
IsPausedChanges(r) ==
    /\ InEngine(r)
    /\ paused' = [paused EXCEPT ![r] = ~ @]
    /\ UNCHANGED << AgentVars, opened, jpc, idx, keys, onStartCount,
                    onCompleteLog, progressLog, thrown, navigatedTo,
                    engineOpts, focused, pageClosed, stopped, pageOf, extraLog, breakLog, stopSince >>

NextTyper ==
    \/ Focus(TyperJob)
    \/ Gate(TyperJob)
    \/ PausePoll(TyperJob)
    \/ TypeWrong(TyperJob)
    \/ Backspace(TyperJob)
    \/ Emit(TyperJob)
    \/ PunctuationPause(TyperJob)
    \/ BreakPause(TyperJob)
    \/ ShouldStopChanges(TyperJob)
    \/ IsPausedChanges(TyperJob)

SpecTyper == InitTyper /\ [][NextTyper]_vars

-----------------------------------------------------------------------------
(* Vocabulary of the properties *)

RawIds == 1 .. Len(jobs)

\* runJob has been called for r and has not settled
Running(r) == jpc[r] \notin {"idle", "fulfilled", "rejected"}

LoopPcs == {"gate", "pausePoll", "wrong", "back", "emit", "punct", "brk"}

\* the character loop of r is under way, with a character still to type
InLoop(r) == jpc[r] \in LoopPcs /\ idx[r] < Len(Text(r))

\* the text the keyboard operations ks leave on the page
RECURSIVE NetText(_)
NetText(ks) ==
    IF ks = <<>> THEN <<>>
    ELSE LET before == NetText(SubSeq(ks, 1, Len(ks) - 1))
             last == ks[Len(ks)]
         IN  IF last.op = "type" THEN Append(before, last.ch)
             ELSE IF last.ch = "Enter" THEN Append(before, "\n")
             ELSE IF before = <<>> THEN <<>>
             ELSE SubSeq(before, 1, Len(before) - 1)

\* the errors that arise inside the try block of runJob
TryErrors == {"goto", "focus", "type", "press"}

Increasing(seq) == \A i, k \in DOMAIN seq : i < k => seq[i] < seq[k]

-----------------------------------------------------------------------------
(* C1 *)

\* C1 (as claimed): in sequential mode, once runAgent has settled, every
\* resolved job that comes after a job that failed in navigation, focus or
\* emission has had its onStart and its surface opened.
C1_LaterJobsRunAfterFailure ==
    (sequential /\ agentState # "pending") =>
        \A k, m \in DOMAIN resolvedJobs :
            (k < m /\ thrown[resolvedJobs[k].raw].at \in TryErrors) =>
                /\ onStartCount[resolvedJobs[m].raw] = 1
                /\ resolvedJobs[m].raw \in Range(opened)

-----------------------------------------------------------------------------
(* C2 *)

\* C2 (as claimed): once the promise of runAgent has settled, no job is
\* still running: every job whose runJob call began has ended.
C2_SettlesAfterEveryJobEnded ==
    agentState # "pending" => \A r \in JobIds : ~ Running(r)

-----------------------------------------------------------------------------
(* C3 *)

-----------------------------------------------------------------------------
(* C4 *)

\* C4: in sequential mode the surfaces are opened in input order, a job
\* gets its onStart and its surface only after the job before it has
\* ended, and at most one job is running at any time.
C4_SequentialNoOverlap ==
    sequential =>
        /\ Increasing(opened)
        /\ \A k \in DOMAIN resolvedJobs :
               (k > 1 /\ (onStartCount[resolvedJobs[k].raw] > 0
                           \/ resolvedJobs[k].raw \in Range(opened)))
                   => Ended(resolvedJobs[k - 1].raw)
        /\ \A r, q \in JobIds : (Running(r) /\ Running(q)) => r = q

\* C4 witness: in sequential mode the second resolved job is in its
\* character loop.
C4_Witness ==
    /\ sequential
    /\ Len(resolvedJobs) >= 2
    /\ InLoop(resolvedJobs[2].raw)

-----------------------------------------------------------------------------
(* C5 *)

\* C5: in parallel mode, once any job has gone past the request of its
\* surface (and so before any character goes out), every resolved job has
\* had its onStart and its surface requested, in input order.
C5_AllOpenedBeforeTyping ==
    ~ sequential =>
        /\ Increasing(opened)
        /\ (\E r \in JobIds : jpc[r] \notin {"idle", "newPage"} \/ keys[r] # <<>>)
              => \A k \in DOMAIN resolvedJobs :
                     /\ onStartCount[resolvedJobs[k].raw] = 1
                     /\ opened[k] = resolvedJobs[k].raw

\* C5 witness: in parallel mode two jobs are in their character loops at
\* the same time.
C5_Witness ==
    /\ ~ sequential
    /\ \E r, q \in JobIds : r # q /\ InLoop(r) /\ InLoop(q)

-----------------------------------------------------------------------------
(* C6 *)

\* C6 (as claimed): a job whose onStart was invoked and whose run has
\* ended has had exactly one onComplete.
C6_OneCompletePerStartedJob ==
    \A r \in JobIds :
        (onStartCount[r] > 0 /\ Ended(r)) => Len(onCompleteLog[r]) = 1

-----------------------------------------------------------------------------
(* C7 *)

\* the descriptor at r resolves to no content
EmptyContent(r) == ResolveContent(jobs[r]) = <<>>

\* C7: a descriptor whose resolved content is empty never gets an onStart,
\* a surface, a navigation or a key; when runAgent resolves, every other
\* descriptor of the list has been typed in full; and when every
\* descriptor is empty, no session is opened and runAgent ends resolved.
C7_EmptyJobsExcluded ==
    /\ \A r \in RawIds :
          EmptyContent(r) =>
              /\ onStartCount[r] = 0
              /\ r \notin Range(opened)
              /\ jpc[r] = "idle"
              /\ navigatedTo[r] = NoUrl
              /\ keys[r] = <<>>
              /\ thrown[r] = NoError
    /\ (agentPc = "done" /\ agentState = "resolved") =>
          \A r \in RawIds :
              ~ EmptyContent(r) =>
                  /\ jpc[r] = "fulfilled"
                  /\ NetText(keys[r]) = ResolveContent(jobs[r])
    /\ (\A r \in RawIds : EmptyContent(r)) =>
          /\ sessionOpens = 0
          /\ agentState # "rejected"
          /\ agentPc = "done" => agentState = "resolved"

\* C7 witness: runAgent has resolved a list with an empty descriptor, which
\* was skipped with a warning, and another one, which was typed in full.
C7_Witness ==
    /\ agentPc = "done"
    /\ agentState = "resolved"
    /\ \E r, q \in RawIds :
          /\ EmptyContent(r)
          /\ r \in Range(warnings)
          /\ ~ EmptyContent(q)
          /\ jpc[q] = "fulfilled"
          /\ keys[q] # <<>>

-----------------------------------------------------------------------------
(* C8 *)

\* the content source of the descriptor at r names a resource that cannot
\* be read
SourceUnreadable(r) ==
    /\ ~ Has(jobs[r], "essayContent")
    /\ Has(jobs[r], "essay")
    /\ mightBePath(Trim(jobs[r].essay))
    /\ ~ Readable(Trim(jobs[r].essay))

\* the resolve loop of runAgent has gone past the descriptor at r
PastResolve(r) == agentPc # "config" /\ (agentPc # "resolve" \/ cursor > r)

IsPrefix(p, t) == Len(p) <= Len(t) /\ SubSeq(t, 1, Len(p)) = p

\* C8 (as claimed): a job whose content source cannot be read is excluded
\* with a warning, and nothing is ever emitted to its surface.
C8_UnreadableSourceExcluded ==
    \A r \in RawIds :
        SourceUnreadable(r) => keys[r] = <<>>

\* C8 (amended): a job whose content source cannot be read is not
\* excluded: it is resolved without a warning, its content is the trimmed
\* source string itself, and that string is what is typed to its surface.
C8_UnreadableSourceTypedAsText ==
    \A r \in RawIds :
        (SourceUnreadable(r) /\ PastResolve(r)) =>
            /\ IsResolved(r)
            /\ r \notin Range(warnings)
            /\ Text(r) = Trim(jobs[r].essay)
            /\ jpc[r] # "back" => IsPrefix(NetText(keys[r]), Trim(jobs[r].essay))
            /\ jpc[r] = "fulfilled" => NetText(keys[r]) = Trim(jobs[r].essay)

\* C8 witness: a job whose source cannot be read has completed, the path
\* string typed to its surface.
C8_Witness ==
    \E r \in RawIds :
        /\ SourceUnreadable(r)
        /\ jpc[r] = "fulfilled"
        /\ NetText(keys[r]) = PathMissing

-----------------------------------------------------------------------------
(* C9 *)

IsCanonical(u) == StartsWith(u, CanonicalPrefix)

LooksLikeToken(u) == Len(u) >= 20 /\ Range(u) \subseteq TokenChars

-----------------------------------------------------------------------------
(* C10 *)

\* the built-in defaults as the claim gives them
ClaimedDefaults ==
    [wpm |-> 45, wpmVariance |-> 10, simulateTypos |-> FALSE, typoChance |-> 2,
     punctuationPauses |-> TRUE, breakEveryChars |-> 0, breakDurationMs |-> 5000]

\* C10: for a run started from a config file, every option the engine is
\* given for a job is the job's own override when the job of the file has
\* one, otherwise the global option of the file, otherwise the built-in
\* default.
C10_OptionPrecedence ==
    \A r \in JobIds :
        engineOpts[r] # NoOptions =>
            \A k \in OptionKeys :
                engineOpts[r][k] =
                    IF Has(config.jobs[r], k) THEN config.jobs[r][k]
                    ELSE IF Has(config.options, k) THEN config.options[k]
                    ELSE ClaimedDefaults[k]

\* C10 witness: the engine has its options for a job that overrides one
\* option with a falsy value against a global one, leaves a second to the
\* global options and a third to the built-in default.
C10_Witness ==
    \E r \in JobIds :
        /\ engineOpts[r] # NoOptions
        /\ \E k1, k2, k3 \in OptionKeys :
              /\ Has(config.jobs[r], k1)
              /\ Has(config.options, k1)
              /\ config.jobs[r][k1] # config.options[k1]
              /\ Falsy(k1, config.jobs[r][k1])
              /\ ~ Has(config.jobs[r], k2)
              /\ Has(config.options, k2)
              /\ ~ Has(config.jobs[r], k3)
              /\ ~ Has(config.options, k3)

-----------------------------------------------------------------------------
(* C11 *)

\* the text the engine of r has typed is the first n characters of its text
TypedUpTo(r, n) == NetText(keys[r]) = SubSeq(Text(r), 1, n)

\* C11: when shouldStop() is true at the head of the loop for character i,
\* the call returns at once: no key and no onProgress for character i, the
\* characters typed before stay, and onComplete gets null; and once the
\* call has returned nothing more is typed or reported.
C11_StopEndsRunCleanly ==
    [][\A r \in JobIds :
          /\ (jpc[r] = "gate" /\ stopped[r] /\ jpc'[r] # "gate") =>
                 /\ jpc'[r] = "fulfilled"
                 /\ thrown'[r] = NoError
                 /\ onCompleteLog'[r] = << NoError >>
                 /\ keys'[r] = keys[r]
                 /\ progressLog'[r] = progressLog[r]
                 /\ idx'[r] = idx[r]
                 /\ TypedUpTo(r, idx[r])
          /\ Ended(r) =>
                 /\ keys'[r] = keys[r]
                 /\ progressLog'[r] = progressLog[r]
                 /\ onCompleteLog'[r] = onCompleteLog[r]
                 /\ jpc'[r] = jpc[r]]_vars

\* C11 witness: the run was stopped before a character in the middle of
\* its text: what was typed before is in place and onComplete got null.
C11_Witness ==
    \E r \in JobIds :
        /\ jpc[r] = "fulfilled"
        /\ stopped[r]
        /\ 0 < idx[r]
        /\ idx[r] < Len(Text(r))
        /\ TypedUpTo(r, idx[r])
        /\ Len(progressLog[r]) = idx[r]
        /\ onCompleteLog[r] = << NoError >>

-----------------------------------------------------------------------------
(* C12 *)

\* the lowercase form of c has an adjacency entry
HasEntry(c) == \E i \in DOMAIN Alpha : Alpha[i] = ToLower(c)

IsUpperLetter(c) == \E i \in DOMAIN AlphaUp : AlphaUp[i] = c

\* w is a neighbour of c in the case of c, and is not c
WrongFor(w, c) ==
    /\ \E i \in DOMAIN Alpha :
          /\ Alpha[i] = ToLower(c)
          /\ ToLower(w) \in Range(NeighborRows[i])
    /\ IsUpperLetter(w) <=> IsUpperLetter(c)
    /\ w # c

\* the key that types c
EmissionOf(c) == IF c = "\n" THEN KeyPress("Enter") ELSE KeyType(c)

\* ks is a beginning of the keys of text, character after character: a
\* character is typed plainly, or after one wrong key and one Backspace.
\* typos says which: "always" and "never" for the characters with an
\* adjacency entry, "may" leaves it open; a character without an entry is
\* typed plainly.
RECURSIVE Conforms(_, _, _)
Conforms(ks, text, typos) ==
    IF ks = <<>> THEN TRUE
    ELSE IF text = <<>> THEN FALSE
    ELSE LET c == Head(text)
         IN  \/ /\ ~ HasEntry(c) \/ typos # "always"
                /\ ks[1] = EmissionOf(c)
                /\ Conforms(Tail(ks), Tail(text), typos)
             \/ /\ HasEntry(c) /\ typos # "never"
                /\ ks[1].op = "type" /\ WrongFor(ks[1].ch, c)
                /\ Len(ks) >= 2 => ks[2] = KeyPress("Backspace")
                /\ Len(ks) >= 3 =>
                       /\ ks[3] = EmissionOf(c)
                       /\ Conforms(SubSeq(ks, 4, Len(ks)), Tail(text), typos)

\* the engine of r makes a typo at every character it can
TyposAlways(r) ==
    /\ engineOpts[r] # NoOptions
    /\ engineOpts[r].simulateTypos
    /\ engineOpts[r].typoChance = 100

\* C12: with typos enabled and typoChance 1, the keys of a run are, for
\* every character with an adjacency entry, one wrong key (a neighbour in
\* the case of the character, not the character), one Backspace and the
\* character; whatever typoChance is, a character without an entry is
\* typed with no wrong key and no Backspace before it; and no adjacency
\* entry holds its own key.
C12_TypoShape ==
    /\ \A i \in DOMAIN Alpha : Alpha[i] \notin Range(NeighborRows[i])
    /\ \A r \in JobIds :
          engineOpts[r] # NoOptions =>
              Conforms(keys[r], Text(r), IF TyposAlways(r) THEN "always" ELSE "may")

\* C12 witness: "Hi." was typed in full with typoChance 1: a wrong key and
\* a Backspace before H and before i, none before the full stop.
C12_Witness ==
    \E r \in JobIds :
        /\ TyposAlways(r)
        /\ jpc[r] = "fulfilled"
        /\ Text(r) = TextHi
        /\ Len(keys[r]) = 7
        /\ IsUpperLetter(keys[r][1].ch)
        /\ keys[r][7] = KeyType(".")

-----------------------------------------------------------------------------
(* C13 *)

\* the engine of r makes no typo
TyposDisabled(r) ==
    /\ engineOpts[r] # NoOptions
    /\ ~ engineOpts[r].simulateTypos \/ engineOpts[r].typoChance = 0

\* the characters of the punctuation table
PunctuationMarks == {".", "!", "?", ",", ";", ":", "\n"}

\* the positions of the punctuation marks among the first k characters
RECURSIVE PunctuationPositions(_, _)
PunctuationPositions(text, k) ==
    IF k = 0 THEN <<>>
    ELSE IF text[k] \in PunctuationMarks
    THEN Append(PunctuationPositions(text, k - 1), k)
    ELSE PunctuationPositions(text, k - 1)

\* C13: with typos disabled, the keys of a run are at every moment the
\* emissions of the first k characters of the text in order (Enter for a
\* line break) with no Backspace, the onProgress calls are those of
\* 1/n .. k/n in order, and the extra sleeps are those after the
\* punctuation marks among these characters when punctuationPauses is on,
\* none when it is off; k is n, and the last fraction n/n, once a run that
\* was not stopped has returned.
C13_PlainRun ==
    \A r \in JobIds :
        TyposDisabled(r) =>
            LET k == Len(keys[r])
                n == Len(Text(r))
            IN  /\ k <= n
                /\ keys[r] = [i \in 1 .. k |-> EmissionOf(Text(r)[i])]
                /\ progressLog[r] = [i \in 1 .. k |-> i]
                /\ [i \in DOMAIN extraLog[r] |-> extraLog[r][i].at] =
                      IF engineOpts[r].punctuationPauses
                      THEN PunctuationPositions(Text(r), k)
                      ELSE <<>>
                /\ (jpc[r] = "fulfilled" /\ idx[r] = n) =>
                      k = n /\ progressLog[r][n] = n

\* C13 witness: "Hi." typed with punctuationPauses on and typos off: three
\* emissions, one extra sleep after the full stop, a last fraction of 3/3.
C13_Witness ==
    \E r \in JobIds :
        /\ TyposDisabled(r)
        /\ engineOpts[r].punctuationPauses
        /\ jpc[r] = "fulfilled"
        /\ keys[r] = << KeyType("H"), KeyType("i"), KeyType(".") >>
        /\ progressLog[r] = << 1, 2, 3 >>
        /\ Len(extraLog[r]) = 1
        /\ extraLog[r][1].at = 3

-----------------------------------------------------------------------------
(* C14 *)

\* the focus loop of r is over and no click succeeded
FocusFailed(r) ==
    /\ jpc[r] \in LoopPcs \cup {"closing", "fulfilled", "rejected"}
    /\ navigatedTo[r] # NoUrl
    /\ thrown[r].at \notin {"newPage", "goto", "focus"}
    /\ ~ focused[r]

\* C14 (as claimed): when no focus click succeeded, no key is ever sent
\* to the page and the job ends with its error given to onComplete.
C14_NoFocusNoTyping ==
    \A r \in JobIds :
        FocusFailed(r) =>
            /\ keys[r] = <<>>
            /\ Ended(r) => (thrown[r] # NoError /\ onCompleteLog[r] = << thrown[r] >>)

-----------------------------------------------------------------------------
(* C15 *)

\* a keyboard call of r has failed: keyboard.type or keyboard.press
KeyFailed(r) == thrown[r].at \in {"type", "press"}

\* C15: when keyboard.type or keyboard.press fails at character i, the
\* failed call leaves no key and no onProgress behind, the error goes to
\* onComplete once, the call of runJob is over but for the closing of the
\* page, and from then on no key, no onProgress and no onComplete follows.
C15_KeyFailureAbortsLoop ==
    /\ [](\A r \in JobIds :
             KeyFailed(r) =>
                 /\ thrown[r].job = r
                 /\ onCompleteLog[r] = << thrown[r] >>
                 /\ jpc[r] \in {"closing", "rejected"}
                 /\ idx[r] < Len(Text(r))
                 /\ Len(progressLog[r]) = idx[r])
    /\ [][\A r \in JobIds :
             (KeyFailed(r) \/ KeyFailed(r)') =>
                 /\ keys'[r] = keys[r]
                 /\ progressLog'[r] = progressLog[r]
                 /\ idx'[r] = idx[r]
                 /\ extraLog'[r] = extraLog[r]
                 /\ KeyFailed(r) => /\ onCompleteLog'[r] = onCompleteLog[r]
                                    /\ thrown'[r] = thrown[r]]_vars

\* C15 witness: the emission of the second character failed after the
\* first was typed, and the job ended with its error given to onComplete.
C15_Witness ==
    \E r \in JobIds :
        /\ thrown[r].at = "type"
        /\ jpc[r] = "rejected"
        /\ idx[r] = 1
        /\ NetText(keys[r]) = SubSeq(Text(r), 1, 1)
        /\ progressLog[r] = << 1 >>
        /\ onCompleteLog[r] = << thrown[r] >>

-----------------------------------------------------------------------------
(* C16 *)

\* C16: launchPersistentContext is called at most once in a run; a job
\* has its onStart, its newPage request or its page only after that call;
\* and the context is never closed, whether runAgent is pending, resolved
\* or rejected.
C16_OneSessionNeverClosed ==
    /\ sessionOpens <= 1
    /\ \A r \in JobIds :
          (onStartCount[r] > 0 \/ r \in Range(opened) \/ pageOf[r] # 0 \/ jpc[r] # "idle")
              => sessionOpens = 1
    /\ ~ sessionClosed

\* C16 witness: runAgent has ended rejected, one job failed and another
\* typed in full, on pages of the one context, which is still open.
C16_Witness ==
    /\ agentPc = "done"
    /\ agentState = "rejected"
    /\ sessionOpens = 1
    /\ ~ sessionClosed
    /\ \E r, q \in JobIds :
          /\ jpc[r] = "rejected" /\ pageOf[r] # 0
          /\ jpc[q] = "fulfilled" /\ pageOf[q] # 0

-----------------------------------------------------------------------------
(* C17 *)

\* C17 (as claimed): a page is closed by runJob only in sequential mode;
\* in parallel mode no page is closed or about to be, whatever
\* closeTabOnComplete is.
C17_PagesClosedOnlyWhenSequential ==
    \A r \in JobIds :
        (pageClosed[r] \/ jpc[r] = "closing") => sequential

-----------------------------------------------------------------------------
(* C18 *)

\* C18 (as claimed): while isPaused() is true the engine sends no key,
\* calls no onProgress and keeps its index.
C18_NothingWhilePaused ==
    [][\A r \in JobIds :
          (InEngine(r) /\ paused[r]) =>
              /\ keys'[r] = keys[r]
              /\ progressLog'[r] = progressLog[r]
              /\ idx'[r] = idx[r]]_vars

\* the number of characters of r that are typed and reported
Reported(r) == IF jpc[r] \in {"punct", "brk"} THEN idx[r] + 1 ELSE idx[r]

\* C18 (amended): isPaused() is asked at the head of the loop only, after
\* shouldStop().  When it is true there the engine enters its poll, and
\* in the poll it sends no key, calls no onProgress, keeps its index and
\* leaves only when isPaused() is false, for the same character.  No
\* character is skipped or typed twice: what is typed and reported is
\* always the first characters of the text, once each (a wrong key is on
\* the page until its Backspace, for good if the Backspace fails).
C18_PausePollHoldsTheRun ==
    /\ [][\A r \in JobIds :
             /\ (/\ jpc[r] = "gate"
                 /\ ~ stopped[r]
                 /\ idx[r] < Len(Text(r))
                 /\ paused[r]
                 /\ jpc'[r] # "gate") => jpc'[r] = "pausePoll"
             /\ jpc[r] = "pausePoll" =>
                    /\ keys'[r] = keys[r]
                    /\ progressLog'[r] = progressLog[r]
                    /\ extraLog'[r] = extraLog[r]
                    /\ idx'[r] = idx[r]
                    /\ jpc'[r] \in {"pausePoll", "wrong", "emit"}
                    /\ jpc'[r] # "pausePoll" => ~ paused[r]]_vars
    /\ [](\A r \in JobIds :
             engineOpts[r] # NoOptions =>
                 /\ progressLog[r] = [i \in 1 .. Reported(r) |-> i]
                 /\ (jpc[r] # "back" /\ thrown[r].at # "press")
                        => TypedUpTo(r, Reported(r)))

\* C18 witness: the engine is in its poll, paused before a character in
\* the middle of the text, with the characters before it typed.
C18_Witness ==
    \E r \in JobIds :
        /\ jpc[r] = "pausePoll"
        /\ paused[r]
        /\ 0 < idx[r]
        /\ idx[r] < Len(Text(r))
        /\ TypedUpTo(r, idx[r])

-----------------------------------------------------------------------------
(* C19 *)

\* a keyboard call of r is pending or about to be made on its page
KeyPending(r) == jpc[r] \in {"wrong", "back", "emit"}

\* the engine of r is at work on page p
ActiveOn(r, p) == pageOf[r] = p /\ InEngine(r)

\* C19: the pages of two jobs are never the same page, also when the two
\* jobs have the same docUrl, so at most one engine is at work on a page
\* and at most one keyboard call is pending on it, in both modes.
C19_OnePagePerJob ==
    \A r, q \in JobIds :
        (r # q /\ pageOf[r] # 0) =>
            /\ pageOf[r] # pageOf[q]
            /\ ActiveOn(r, pageOf[r]) => ~ ActiveOn(q, pageOf[r])
            /\ KeyPending(r) => ~ (KeyPending(q) /\ pageOf[q] = pageOf[r])

\* C19 witness: in a parallel run two jobs of the same docUrl have a
\* keyboard call pending at the same time, each on its own page.
C19_Witness ==
    \E r, q \in JobIds :
        /\ r # q
        /\ KeyPending(r)
        /\ KeyPending(q)
        /\ JobOf(r).docUrl = JobOf(q).docUrl
        /\ pageOf[r] # pageOf[q]

-----------------------------------------------------------------------------
(* C20 *)

SentenceEnders == {".", "!", "?"}
ClauseSeparators == {",", ";", ":"}

\* C20 (as claimed): of the extra sleeps of a run, one after a sentence
\* ender is longer than one after a clause separator, one after a clause
\* separator is longer than one after a line break, and no other
\* character gets one.
C20_ExtraOrderedByClass ==
    \A r \in JobIds :
        \A i, j \in DOMAIN extraLog[r] :
            LET a == extraLog[r][i]
                b == extraLog[r][j]
            IN  /\ a.ch \in PunctuationMarks
                /\ (a.ch \in SentenceEnders /\ b.ch \in ClauseSeparators)
                       => a.ms > b.ms
                /\ (a.ch \in ClauseSeparators /\ b.ch = "\n") => a.ms > b.ms

-----------------------------------------------------------------------------
(* C21 *)

\* characters that are not in the punctuation table
PlainChars == (Range(Alpha) \cup Range(AlphaUp) \cup Digits \cup {" ", "-", "'"})

\* the positions of the extra sleeps of r
ExtraPositions(r) == { extraLog[r][i].at : i \in DOMAIN extraLog[r] }

\* C21: the extra of the full stop is longer than that of the comma, which
\* is more than 0; a character outside the table has extra 0; and in a
\* run no extra sleep is taken, or about to be, after a character that is
\* not in the table, while the sleeps after a full stop and a comma are
\* of 400 and 120.
C21_ExtraOnlyAfterPunctuation ==
    /\ punctuationDelay(".") > punctuationDelay(",")
    /\ punctuationDelay(",") > 0
    /\ \A c \in PlainChars : punctuationDelay(c) = 0
    /\ \A r \in JobIds :
          engineOpts[r] # NoOptions =>
              /\ \A i \in DOMAIN extraLog[r] :
                     LET e == extraLog[r][i]
                     IN  /\ e.ch = Text(r)[e.at]
                         /\ e.ch \in PunctuationMarks
                         /\ e.ms > 0
                         /\ e.ch = "." => e.ms = 400
                         /\ e.ch = "," => e.ms = 120
              /\ \A j \in 1 .. Len(Text(r)) :
                     Text(r)[j] \notin PunctuationMarks => j \notin ExtraPositions(r)
              /\ jpc[r] = "punct" => Char(r) \in PunctuationMarks

\* C21 witness: ".,x" was typed in full with punctuationPauses on: an
\* extra sleep after the full stop, a shorter one after the comma, none
\* after the x.
C21_Witness ==
    \E r \in JobIds :
        /\ jpc[r] = "fulfilled"
        /\ Text(r) = TextClause
        /\ idx[r] = 3
        /\ Len(extraLog[r]) = 2
        /\ extraLog[r][1].ch = "."
        /\ extraLog[r][2].ch = ","
        /\ extraLog[r][1].ms > extraLog[r][2].ms

-----------------------------------------------------------------------------
(* C22 *)

\* the multiples of k among 1 .. m, in order
RECURSIVE MultiplesUpTo(_, _)
MultiplesUpTo(k, m) ==
    IF m <= 0 THEN <<>>
    ELSE IF m % k = 0 THEN Append(MultiplesUpTo(k, m - 1), m)
    ELSE MultiplesUpTo(k, m - 1)

\* the number of characters of r whose break, if one is due, is logged
PastBreak(r) == IF jpc[r] = "brk" THEN idx[r] + 1 ELSE idx[r]

Smaller(a, b) == IF a < b THEN a ELSE b

\* C22: with breakEveryChars k > 0 the breaks of a run of n characters
\* are, at every moment, those after the multiples of k below n among the
\* characters gone by, each of breakDurationMs: (n - 1) \div k of them in
\* a complete run, none after the last character; with k = 0 there is no
\* break; and no key is sent during a break.
C22_BreaksEveryK ==
    /\ [](\A r \in JobIds :
             engineOpts[r] # NoOptions =>
                 LET k == engineOpts[r].breakEveryChars
                     n == Len(Text(r))
                 IN  /\ [i \in DOMAIN breakLog[r] |-> breakLog[r][i].at] =
                           IF k > 0
                           THEN MultiplesUpTo(k, Smaller(PastBreak(r), n - 1))
                           ELSE <<>>
                     /\ \A i \in DOMAIN breakLog[r] :
                            breakLog[r][i].ms = engineOpts[r].breakDurationMs
                     /\ (jpc[r] = "fulfilled" /\ idx[r] = n /\ k > 0) =>
                            Len(breakLog[r]) = (n - 1) \div k
                     /\ jpc[r] = "brk" => k > 0)
    /\ [][\A r \in JobIds :
             jpc[r] = "brk" =>
                 /\ keys'[r] = keys[r]
                 /\ progressLog'[r] = progressLog[r]
                 /\ jpc'[r] \in {"brk", "gate"}]_vars

\* C22 witness: a text of four characters was typed in full with a break
\* after every second character: one break, after the second, none after
\* the fourth.
C22_Witness ==
    \E r \in JobIds :
        /\ jpc[r] = "fulfilled"
        /\ engineOpts[r].breakEveryChars = 2
        /\ Len(Text(r)) = 4
        /\ idx[r] = 4
        /\ Len(breakLog[r]) = 1
        /\ breakLog[r][1].at = 2

-----------------------------------------------------------------------------
(* C23 *)

\* the loop of r is at its head, or the call has returned without an error
AtBoundary(r) ==
    \/ jpc[r] \in {"gate", "pausePoll"}
    \/ jpc[r] = "fulfilled" /\ thrown[r] = NoError

\* the keys of r hold a wrong key followed by Backspace
TypoDone(r) ==
    \E i \in 1 .. Len(keys[r]) - 1 :
        /\ keys[r][i].op = "type"
        /\ keys[r][i + 1] = KeyPress("Backspace")

\* C23: each time the loop is at its head for character i, and when the
\* call has returned by completion or by stop, the keys sent so far, each
\* Backspace removing the character before it, amount to exactly the first
\* i characters of the text, and i characters have been reported.
C23_NetTextIsPrefix ==
    \A r \in JobIds :
        (engineOpts[r] # NoOptions /\ AtBoundary(r)) =>
            /\ idx[r] \in 0 .. Len(Text(r))
            /\ TypedUpTo(r, idx[r])
            /\ Len(NetText(keys[r])) = idx[r]
            /\ Len(progressLog[r]) = idx[r]

\* C23 witness: the loop is at its head after a character that was typed
\* wrong and corrected, and the page holds the text up to that character.
C23_Witness ==
    \E r \in JobIds :
        /\ jpc[r] = "gate"
        /\ idx[r] >= 2
        /\ TypoDone(r)
        /\ Len(keys[r]) > idx[r]
        /\ TypedUpTo(r, idx[r])

-----------------------------------------------------------------------------
(* C24 *)

\* shouldStop() of r turned true and has been true since
StopHeld(r) == stopped[r] /\ stopSince[r] # NoStop

\* the places of the loop between its head and the emission of the
\* character: the pause poll and the typo that precedes the character
BeforeEmission == {"pausePoll", "wrong", "back", "emit"}

\* the characters that may still go out after shouldStop() turned true
\* at the place pc
StillToType(pc) == IF pc \in BeforeEmission THEN 1 ELSE 0

\* C24: once shouldStop() has turned true and stays true, at most one more
\* character of the text is typed and reported, and only when the
\* iteration for it was already past the head of the loop (in the pause
\* poll or in the typo before the character); the next time the head of
\* the loop is reached the call returns, with no error.
C24_AtMostOneAfterStop ==
    /\ [](\A r \in JobIds :
             StopHeld(r) =>
                 /\ Len(progressLog[r]) <=
                        stopSince[r].n + StillToType(stopSince[r].pc)
                 /\ Len(NetText(keys[r])) <=
                        stopSince[r].n + StillToType(stopSince[r].pc)
                 /\ Len(progressLog[r]) > stopSince[r].n =>
                        jpc[r] \in {"punct", "brk", "gate", "fulfilled"})
    /\ [][\A r \in JobIds :
             (StopHeld(r) /\ jpc[r] = "gate" /\ jpc'[r] # "gate") =>
                 /\ jpc'[r] = "fulfilled"
                 /\ thrown'[r] = NoError
                 /\ keys'[r] = keys[r]
                 /\ progressLog'[r] = progressLog[r]]_vars

\* C24 witness: shouldStop() turned true while the run was held in the
\* pause poll; the character that was waiting went out, and the call
\* returned before the end of the text.
C24_Witness ==
    \E r \in JobIds :
        /\ jpc[r] = "fulfilled"
        /\ StopHeld(r)
        /\ stopSince[r].pc = "pausePoll"
        /\ stopSince[r].n >= 1
        /\ Len(progressLog[r]) = stopSince[r].n + 1
        /\ idx[r] = stopSince[r].n + 1
        /\ idx[r] < Len(Text(r))

====
